---- MODULE Spec2Model ----
(***************************************************************************)
(* Model of src/main.py: a text-adventure engine that sends each player    *)
(* command to a generative backend, recovers a JSON reply from its text,   *)
(* applies the reply's state-change atoms to the game state and evaluates  *)
(* the end conditions.                                                     *)
(*                                                                         *)
(* Representation.  A Python str is a sequence of lexemes: a lexeme is a   *)
(* single significant character (":", " ", a sign, a digit) or a maximal   *)
(* run of other characters ("move_to", "cave").  A backend text is a       *)
(* sequence of JSON tokens; string literals carry their str.  A JSON value *)
(* is a record [t, s, n, l, o] with the type tag t and the payload in the  *)
(* field of that type.  A dict is a sequence of [key, val] pairs in        *)
(* insertion order, as Python keeps it.                                    *)
(***************************************************************************)
EXTENDS Integers, Sequences, FiniteSets, TLC

\* ------------------------------------------------------------------ str

\* A one-lexeme str.
S(w) == <<w>>

RECURSIVE LStrip(_)
\* str.lstrip(): drop the leading whitespace lexemes.
LStrip(s) ==
    IF s # <<>> /\ Head(s) = " " THEN LStrip(Tail(s)) ELSE s

RECURSIVE RStrip(_)
\* str.rstrip(): drop the trailing whitespace lexemes.
RStrip(s) ==
    IF s # <<>> /\ s[Len(s)] = " " THEN RStrip(SubSeq(s, 1, Len(s) - 1)) ELSE s

\* str.strip()
Strip(s) == RStrip(LStrip(s))

\* atom.startswith(kind + ":")
StartsWith(s, kind) == Len(s) >= 2 /\ s[1] = kind /\ s[2] = ":"

\* atom.split(":", 1)[1] for an atom that starts with "<kind>:".
AfterColon(s) == SubSeq(s, 3, Len(s))

DigitChars == {"0", "1", "2", "3", "4", "5", "6", "7", "8", "9"}

\* The value of a decimal digit.
DigitVal(c) ==
    CASE c = "0" -> 0 [] c = "1" -> 1 [] c = "2" -> 2 [] c = "3" -> 3
      [] c = "4" -> 4 [] c = "5" -> 5 [] c = "6" -> 6 [] c = "7" -> 7
      [] c = "8" -> 8 [] c = "9" -> 9

RECURSIVE DigitsValue(_, _)
\* The number a run of digits denotes, most significant first.
DigitsValue(ds, acc) ==
    IF ds = <<>> THEN acc ELSE DigitsValue(Tail(ds), 10 * acc + DigitVal(Head(ds)))

\* int(s): surrounding whitespace is ignored, then an optional sign and at
\* least one digit; anything else raises ValueError (ok = FALSE).
PyInt(s) ==
    LET t    == Strip(s)
        neg  == t # <<>> /\ Head(t) = "-"
        sgn  == t # <<>> /\ Head(t) \in {"-", "+"}
        ds   == IF sgn THEN Tail(t) ELSE t
        good == ds # <<>> /\ \A i \in 1..Len(ds) : ds[i] \in DigitChars
    IN  IF good
        THEN [ok |-> TRUE, v |-> IF neg THEN 0 - DigitsValue(ds, 0) ELSE DigitsValue(ds, 0)]
        ELSE [ok |-> FALSE, v |-> 0]

\* ----------------------------------------------------------- JSON values

JNull    == [t |-> "null", s |-> <<>>, n |-> 0, l |-> <<>>, o |-> <<>>]
JStr(s)  == [t |-> "str",  s |-> s,    n |-> 0, l |-> <<>>, o |-> <<>>]
JNum(n)  == [t |-> "num",  s |-> <<>>, n |-> n, l |-> <<>>, o |-> <<>>]
JList(l) == [t |-> "list", s |-> <<>>, n |-> 0, l |-> l,    o |-> <<>>]
JObj(o)  == [t |-> "obj",  s |-> <<>>, n |-> 0, l |-> <<>>, o |-> o]
\* true and false: n is 1 for true.
JBool(b) == [t |-> "bool", s |-> <<>>, n |-> IF b THEN 1 ELSE 0, l |-> <<>>, o |-> <<>>]

\* One key of a dict.
Pair(k, v) == [key |-> k, val |-> v]

\* key in d
DictHas(d, k) == \E i \in 1..Len(d) : d[i].key = k

\* d[key], for a key that is in d.
DictAt(d, k) == d[CHOOSE i \in 1..Len(d) : d[i].key = k].val

\* d.get(key, default)
DictGet(d, k, default) == IF DictHas(d, k) THEN DictAt(d, k) ELSE default

\* d[key] = v: a present key keeps its position, a new key goes last.
DictSet(d, k, v) ==
    IF DictHas(d, k)
    THEN [i \in 1..Len(d) |-> IF d[i].key = k THEN Pair(k, v) ELSE d[i]]
    ELSE Append(d, Pair(k, v))

\* ----------------------------------------------------------- JSON text

Tok(k)    == [k |-> k,     s |-> <<>>, n |-> 0]
TStr(s)   == [k |-> "str", s |-> s,    n |-> 0]
TNum(n)   == [k |-> "num", s |-> <<>>, n |-> n]
\* A run of prose that is no JSON token.
Prose     == Tok("word")
\* A run of whitespace.
Ws        == Tok("ws")

RECURSIVE Dumps(_)
RECURSIVE DumpsItems(_)
RECURSIVE DumpsMembers(_)
\* json.dumps(v): the text of a JSON value.
Dumps(v) ==
    CASE v.t = "str"  -> <<TStr(v.s)>>
      [] v.t = "num"  -> <<TNum(v.n)>>
      [] v.t = "null" -> <<Tok("null")>>
      [] v.t = "bool" -> <<Tok(IF v.n = 1 THEN "true" ELSE "false")>>
      [] v.t = "list" -> <<Tok("[")>> \o DumpsItems(v.l) \o <<Tok("]")>>
      [] v.t = "obj"  -> <<Tok("{")>> \o DumpsMembers(v.o) \o <<Tok("}")>>

DumpsItems(l) ==
    IF l = <<>> THEN <<>>
    ELSE Dumps(Head(l)) \o (IF Len(l) > 1 THEN <<Tok(",")>> ELSE <<>>) \o DumpsItems(Tail(l))

DumpsMembers(o) ==
    IF o = <<>> THEN <<>>
    ELSE <<TStr(Head(o).key), Tok(":")>> \o Dumps(Head(o).val)
         \o (IF Len(o) > 1 THEN <<Tok(",")>> ELSE <<>>) \o DumpsMembers(Tail(o))

\* The result of a decoding step: ok = FALSE is json.JSONDecodeError.
Decoded(v, i) == [ok |-> TRUE, v |-> v, i |-> i]
DecodeError   == [ok |-> FALSE, v |-> JNull, i |-> 0]

\* The kind of the token at position i, "eof" past the end.
KindAt(t, i) == IF i >= 1 /\ i <= Len(t) THEN t[i].k ELSE "eof"

RECURSIVE ParseValue(_, _)
RECURSIVE ParseItems(_, _, _)
RECURSIVE ParseMembers(_, _, _)
\* The JSON decoder: the value that starts at token i and the position after it.
ParseValue(t, i) ==
    CASE KindAt(t, i) = "str"  -> Decoded(JStr(t[i].s), i + 1)
      [] KindAt(t, i) = "num"  -> Decoded(JNum(t[i].n), i + 1)
      [] KindAt(t, i) = "null" -> Decoded(JNull, i + 1)
      [] KindAt(t, i) = "true"  -> Decoded(JBool(TRUE), i + 1)
      [] KindAt(t, i) = "false" -> Decoded(JBool(FALSE), i + 1)
      [] KindAt(t, i) = "["    ->
            IF KindAt(t, i + 1) = "]" THEN Decoded(JList(<<>>), i + 2)
            ELSE ParseItems(t, i + 1, <<>>)
      [] KindAt(t, i) = "{"    ->
            IF KindAt(t, i + 1) = "}" THEN Decoded(JObj(<<>>), i + 2)
            ELSE ParseMembers(t, i + 1, <<>>)
      [] OTHER -> DecodeError

ParseItems(t, i, acc) ==
    LET r == ParseValue(t, i)
    IN  IF ~r.ok THEN DecodeError
        ELSE IF KindAt(t, r.i) = "," THEN ParseItems(t, r.i + 1, Append(acc, r.v))
        ELSE IF KindAt(t, r.i) = "]" THEN Decoded(JList(Append(acc, r.v)), r.i + 1)
        ELSE DecodeError

ParseMembers(t, i, acc) ==
    IF KindAt(t, i) # "str" \/ KindAt(t, i + 1) # ":" THEN DecodeError
    ELSE LET r == ParseValue(t, i + 2)
         IN  IF ~r.ok THEN DecodeError
             ELSE IF KindAt(t, r.i) = ","
                  THEN ParseMembers(t, r.i + 1, DictSet(acc, t[i].s, r.v))
             ELSE IF KindAt(t, r.i) = "}"
                  THEN Decoded(JObj(DictSet(acc, t[i].s, r.v)), r.i + 1)
             ELSE DecodeError

\* The text without its whitespace tokens (JSON allows whitespace anywhere
\* between tokens).
SkipWs(text) == SelectSeq(text, LAMBDA tk : tk.k # "ws")

\* json.loads(text): one JSON value and nothing else, or JSONDecodeError.
Loads(text) ==
    LET t == SkipWs(text)
        r == ParseValue(t, 1)
    IN  IF r.ok /\ r.i = Len(t) + 1 THEN r ELSE DecodeError

\* text.find(c): the 0-based index of the first token c, -1 when there is none.
Find(text, c) ==
    IF \E i \in 1..Len(text) : text[i].k = c
    THEN (CHOOSE i \in 1..Len(text) :
            text[i].k = c /\ \A j \in 1..(i - 1) : text[j].k # c) - 1
    ELSE -1

\* text.rfind(c): the 0-based index of the last token c, -1 when there is none.
RFind(text, c) ==
    IF \E i \in 1..Len(text) : text[i].k = c
    THEN (CHOOSE i \in 1..Len(text) :
            text[i].k = c /\ \A j \in (i + 1)..Len(text) : text[j].k # c) - 1
    ELSE -1

\* text[start:end] for 0 <= start and 0 <= end.
Slice(text, start, end) ==
    SubSeq(text, start + 1, IF end > Len(text) THEN Len(text) ELSE end)

\* The fallback reply.
Fallback ==
    JObj(<<Pair(S("narration"), JStr(<<"Invalid", " ", "GM", " ", "response.">>)),
           Pair(S("state_change"), JList(<<>>))>>)

\* A parser that gives up when the whole text is not JSON.
safe_json_extract_whole_only(text) ==
    LET whole == Loads(text)
    IN  IF whole.ok THEN whole.v ELSE Fallback

\* safe_json_extract(text)
safe_json_extract(text) ==
    LET whole == Loads(text)
        start == Find(text, "{")
        end   == RFind(text, "}") + 1
        inner == Loads(Slice(text, start, end))
    IN  IF whole.ok THEN whole.v
        ELSE IF start # -1 /\ end # -1 /\ inner.ok THEN inner.v
        ELSE Fallback

\* ------------------------------------------------------- rules and state

\* A key of a dict that may be absent: has = FALSE is "no such key".
Absent(default) == [has |-> FALSE, v |-> default]
Present(v)      == [has |-> TRUE, v |-> v]

\* The flag the engine derives from hp.
HpZero == S("hp_zero")

\* The value of rules.get("START", {}) as the rules file gives it.
StartValue(location, inventory, flags, hp, turns) ==
    [location |-> location, inventory |-> inventory, flags |-> flags,
     hp |-> hp, turns |-> turns]

\* The value of rules.get("END_CONDITIONS", {}); a rules file without the
\* key reads as one with none of the three keys.
EndValue(win, lose, max) == [WIN_ALL_FLAGS |-> win, LOSE_ANY_FLAGS |-> lose, MAX_TURNS |-> max]

\* START = {hp: 10, flags: {}, turns: 0}
StartBare ==
    StartValue(Absent(<<>>), Absent(<<>>), Present(<<>>), Present(10), Present(0))

\* START = {location: "gate", inventory: [], flags: {}, hp: 10, turns: 0}
StartFull ==
    StartValue(Present(S("gate")), Present(<<>>), Present(<<>>), Present(10), Present(0))

\* START = {} (also a rules file with no START key)
StartEmpty ==
    StartValue(Absent(<<>>), Absent(<<>>), Absent(<<>>), Absent(0), Absent(0))

\* The rules files the sessions are run with.
RulesFiles ==
    { [START |-> StartBare,
       END_CONDITIONS |-> EndValue(Absent(<<>>), Present(<<HpZero>>), Absent(0))],
      [START |-> StartBare,
       END_CONDITIONS |-> EndValue(Present(<<S("key")>>), Present(<<HpZero>>), Absent(0))],
      [START |-> StartFull,
       END_CONDITIONS |-> EndValue(Present(<<S("key")>>), Present(<<HpZero>>), Present(2))],
      [START |-> StartFull,
       END_CONDITIONS |-> EndValue(Present(<<S("key"), S("crown")>>), Present(<<S("dead")>>), Absent(0))],
      [START |-> StartEmpty,
       END_CONDITIONS |-> EndValue(Present(<<>>), Present(<<S("dead")>>), Present(1))] }

\* The mutable objects of the session.  LR and DR are the list and the dict
\* that rules["START"]["inventory"] and rules["START"]["flags"] refer to; LS and
\* DS are the list and the dict that only the state refers to (made by
\* setdefault, or by loading a save).
Heap(LR, LS, DR, DS) == [LR |-> LR, LS |-> LS, DR |-> DR, DS |-> DS]

\* The list a reference denotes.
ListOf(h, ref) == IF ref = "R" THEN h.LR ELSE IF ref = "S" THEN h.LS ELSE <<>>

\* The dict a reference denotes.
FlagsOf(h, ref) == IF ref = "R" THEN h.DR ELSE IF ref = "S" THEN h.DS ELSE <<>>

\* The referenced list replaced by l.
WithList(h, ref, l) == IF ref = "R" THEN [h EXCEPT !.LR = l] ELSE [h EXCEPT !.LS = l]

\* The referenced dict replaced by d.
WithFlags(h, ref, d) == IF ref = "R" THEN [h EXCEPT !.DR = d] ELSE [h EXCEPT !.DS = d]

\* json.load(rules.json): the rules object, its START lists and dicts on the heap.
RulesObject(file) ==
    [START |-> [file.START EXCEPT
                   !.inventory = IF file.START.inventory.has THEN "R" ELSE "none",
                   !.flags     = IF file.START.flags.has THEN "R" ELSE "none"],
     END_CONDITIONS |-> file.END_CONDITIONS]

\* GameEngine.__init__: self.state = dict(rules.get("START", {})) copies the
\* keys of START, so the state's inventory and flags are the rules' objects.
InitState(r) == r.START

\* The value a state (or START) object has: its references followed.
StateValue(st, h) ==
    [location  |-> st.location,
     inventory |-> IF st.inventory = "none" THEN Absent(<<>>)
                   ELSE Present(ListOf(h, st.inventory)),
     flags     |-> IF st.flags = "none" THEN Absent(<<>>)
                   ELSE Present(FlagsOf(h, st.flags)),
     hp        |-> st.hp,
     turns     |-> st.turns]

\* The value json.dumps(self.rules) serializes.
RulesValue(r, h) ==
    [START |-> StateValue(r.START, h), END_CONDITIONS |-> r.END_CONDITIONS]

\* ---------------------------------------------------------- State Mutator

\* The state and the heap after a step of the mutator.
Mutated(st, h) == [state |-> st, heap |-> h]

\* item in list
InList(l, x) == \E i \in 1..Len(l) : l[i] = x

\* list.remove(x): the first occurrence goes.
ListRemove(l, x) ==
    LET i == CHOOSE k \in 1..Len(l) : l[k] = x /\ \A j \in 1..(k - 1) : l[j] # x
    IN  SubSeq(l, 1, i - 1) \o SubSeq(l, i + 1, Len(l))

\* self.state.setdefault("flags", {})[flag] = True
SetFlag(st, h, flag) ==
    IF st.flags = "none"
    THEN Mutated([st EXCEPT !.flags = "S"], WithFlags(h, "S", <<Pair(flag, TRUE)>>))
    ELSE Mutated(st, WithFlags(h, st.flags, DictSet(FlagsOf(h, st.flags), flag, TRUE)))

\* The move_to branch.
MoveTo(st, h, atom) ==
    Mutated([st EXCEPT !.location = Present(Strip(AfterColon(atom)))], h)

\* An add_item branch that appends without looking.
AddItemAlways(st, h, atom) ==
    LET item == Strip(AfterColon(atom))
        ref  == IF st.inventory = "none" THEN "S" ELSE st.inventory
        h1   == IF st.inventory = "none" THEN WithList(h, "S", <<>>) ELSE h
        st1  == [st EXCEPT !.inventory = ref]
    IN  Mutated(st1, WithList(h1, ref, Append(ListOf(h1, ref), item)))

\* The add_item branch.
AddItem(st, h, atom) ==
    LET item == Strip(AfterColon(atom))
        ref  == IF st.inventory = "none" THEN "S" ELSE st.inventory
        h1   == IF st.inventory = "none" THEN WithList(h, "S", <<>>) ELSE h
        st1  == [st EXCEPT !.inventory = ref]
    IN  IF InList(ListOf(h1, ref), item) THEN Mutated(st1, h1)
        ELSE Mutated(st1, WithList(h1, ref, Append(ListOf(h1, ref), item)))

\* The remove_item branch.
RemoveItem(st, h, atom) ==
    LET item == Strip(AfterColon(atom))
    IN  IF InList(ListOf(h, st.inventory), item)
        THEN Mutated(st, WithList(h, st.inventory, ListRemove(ListOf(h, st.inventory), item)))
        ELSE Mutated(st, h)

\* The set_flag branch.
SetFlagAtom(st, h, atom) == SetFlag(st, h, Strip(AfterColon(atom)))

\* An hp_delta branch that recomputes the flag from hp at every atom.
HpDeltaUnsticky(st, h, atom) ==
    LET n     == PyInt(AfterColon(atom))
        delta == IF n.ok THEN n.v ELSE 0
        hp    == (IF st.hp.has THEN st.hp.v ELSE 0) + delta
        st1   == [st EXCEPT !.hp = Present(hp)]
        ref   == IF st1.flags = "none" THEN "S" ELSE st1.flags
    IN  Mutated([st1 EXCEPT !.flags = ref],
                WithFlags(h, ref, DictSet(FlagsOf(h, st1.flags), HpZero, hp <= 0)))

\* An hp_delta branch that never derives the flag.
HpDeltaNoFlag(st, h, atom) ==
    LET n     == PyInt(AfterColon(atom))
        delta == IF n.ok THEN n.v ELSE 0
        hp    == (IF st.hp.has THEN st.hp.v ELSE 0) + delta
    IN  Mutated([st EXCEPT !.hp = Present(hp)], h)

\* An hp_delta branch where a payload that does not parse counts as 1.
HpDeltaDefaultOne(st, h, atom) ==
    LET n     == PyInt(AfterColon(atom))
        delta == IF n.ok THEN n.v ELSE 1
        hp    == (IF st.hp.has THEN st.hp.v ELSE 0) + delta
        st1   == [st EXCEPT !.hp = Present(hp)]
    IN  IF hp <= 0 THEN SetFlag(st1, h, HpZero) ELSE Mutated(st1, h)

\* The hp_delta branch.
HpDelta(st, h, atom) ==
    LET n     == PyInt(AfterColon(atom))
        delta == IF n.ok THEN n.v ELSE 0
        hp    == (IF st.hp.has THEN st.hp.v ELSE 0) + delta
        st1   == [st EXCEPT !.hp = Present(hp)]
    IN  IF hp <= 0 THEN SetFlag(st1, h, HpZero) ELSE Mutated(st1, h)

\* The body of the loop of apply_state_changes for one atom (a str).
ApplyOne(st, h, atom) ==
    IF StartsWith(atom, "move_to") THEN MoveTo(st, h, atom)
    ELSE IF StartsWith(atom, "add_item") THEN AddItem(st, h, atom)
    ELSE IF StartsWith(atom, "remove_item") THEN RemoveItem(st, h, atom)
    ELSE IF StartsWith(atom, "set_flag") THEN SetFlagAtom(st, h, atom)
    ELSE IF StartsWith(atom, "hp_delta") THEN HpDelta(st, h, atom)
    ELSE Mutated(st, h)

\* A turn counter that counts the atoms instead of the commands.
TurnsAfterPerAtom(st, n) == Present((IF st.turns.has THEN st.turns.v ELSE 0) + n)

\* self.state["turns"] = self.state.get("turns", 0) + 1, after a batch of n atoms.
TurnsAfter(st, n) == Present((IF st.turns.has THEN st.turns.v ELSE 0) + 1)

\* ------------------------------------------------- End-Condition Evaluator

Win       == "You won!"
Lose      == " You lost!"
TurnLimit == " Max turns exceeded!"
None      == "None"

\* flags.get(f), as a truth value.
FlagTrue(flags, f) == DictGet(flags, f, FALSE)

\* An evaluator that looks at the lose flags first.
check_end_conditions_lose_first(r, sv) ==
    LET end   == r.END_CONDITIONS
        flags == IF sv.flags.has THEN sv.flags.v ELSE <<>>
        win   == IF end.WIN_ALL_FLAGS.has THEN end.WIN_ALL_FLAGS.v ELSE <<>>
        lose  == IF end.LOSE_ANY_FLAGS.has THEN end.LOSE_ANY_FLAGS.v ELSE <<>>
        turns == IF sv.turns.has THEN sv.turns.v ELSE 0
    IN  IF \E i \in 1..Len(lose) : FlagTrue(flags, lose[i]) THEN Lose
        ELSE IF \A i \in 1..Len(win) : FlagTrue(flags, win[i]) THEN Win
        ELSE IF end.MAX_TURNS.has /\ turns >= end.MAX_TURNS.v THEN TurnLimit
        ELSE None

\* An evaluator for which an empty WIN_ALL_FLAGS never wins.
check_end_conditions_no_vacuous_win(r, sv) ==
    LET end   == r.END_CONDITIONS
        flags == IF sv.flags.has THEN sv.flags.v ELSE <<>>
        win   == IF end.WIN_ALL_FLAGS.has THEN end.WIN_ALL_FLAGS.v ELSE <<>>
        lose  == IF end.LOSE_ANY_FLAGS.has THEN end.LOSE_ANY_FLAGS.v ELSE <<>>
        turns == IF sv.turns.has THEN sv.turns.v ELSE 0
    IN  IF win # <<>> /\ \A i \in 1..Len(win) : FlagTrue(flags, win[i]) THEN Win
        ELSE IF \E i \in 1..Len(lose) : FlagTrue(flags, lose[i]) THEN Lose
        ELSE IF end.MAX_TURNS.has /\ turns >= end.MAX_TURNS.v THEN TurnLimit
        ELSE None

\* An Evaluator that lets the turn MAX_TURNS pass.
check_end_conditions_past_limit(r, sv) ==
    LET end   == r.END_CONDITIONS
        flags == IF sv.flags.has THEN sv.flags.v ELSE <<>>
        win   == IF end.WIN_ALL_FLAGS.has THEN end.WIN_ALL_FLAGS.v ELSE <<>>
        lose  == IF end.LOSE_ANY_FLAGS.has THEN end.LOSE_ANY_FLAGS.v ELSE <<>>
        turns == IF sv.turns.has THEN sv.turns.v ELSE 0
    IN  IF \A i \in 1..Len(win) : FlagTrue(flags, win[i]) THEN Win
        ELSE IF \E i \in 1..Len(lose) : FlagTrue(flags, lose[i]) THEN Lose
        ELSE IF end.MAX_TURNS.has /\ turns > end.MAX_TURNS.v THEN TurnLimit
        ELSE None

\* check_end_conditions(), for the rules r and the value sv of self.state.
check_end_conditions(r, sv) ==
    LET end   == r.END_CONDITIONS
        flags == IF sv.flags.has THEN sv.flags.v ELSE <<>>
        win   == IF end.WIN_ALL_FLAGS.has THEN end.WIN_ALL_FLAGS.v ELSE <<>>
        lose  == IF end.LOSE_ANY_FLAGS.has THEN end.LOSE_ANY_FLAGS.v ELSE <<>>
        turns == IF sv.turns.has THEN sv.turns.v ELSE 0
    IN  IF \A i \in 1..Len(win) : FlagTrue(flags, win[i]) THEN Win
        ELSE IF \E i \in 1..Len(lose) : FlagTrue(flags, lose[i]) THEN Lose
        ELSE IF end.MAX_TURNS.has /\ turns >= end.MAX_TURNS.v THEN TurnLimit
        ELSE None

\* -------------------------------------------------------------- inputs

\* The lines the player types, character by character.
Lines ==
    { <<"h", "e", "l", "p">>,
      <<"I", "n", "v", "e", "n", "t", "o", "r", "y">>,
      <<"s", "a", "v", "e">>,
      <<"l", "o", "a", "d", " ">>,
      <<"q", "u", "i", "t">>,
      <<" ", "l", "o", "o", "k">>,
      <<"L", "o", "o", "k">>,
      <<" ", " ">>,
      <<>> }

UpperChars == <<"A", "B", "C", "D", "E", "F", "G", "H", "I", "J", "K", "L", "M",
                "N", "O", "P", "Q", "R", "S", "T", "U", "V", "W", "X", "Y", "Z">>
LowerChars == <<"a", "b", "c", "d", "e", "f", "g", "h", "i", "j", "k", "l", "m",
                "n", "o", "p", "q", "r", "s", "t", "u", "v", "w", "x", "y", "z">>

\* str.lower() of a str given character by character.
Lower(s) ==
    [i \in 1..Len(s) |->
        IF \E k \in 1..Len(UpperChars) : UpperChars[k] = s[i]
        THEN LowerChars[CHOOSE k \in 1..Len(UpperChars) : UpperChars[k] = s[i]]
        ELSE s[i]]

\* The state-change atoms the backend replies are made of.
AtomMove    == <<"move_to", ":", "cave">>
AtomAdd     == <<"add_item", ":", " ", "sword", " ">>
AtomRemove  == <<"remove_item", ":", "sword">>
AtomFlag    == <<"set_flag", ":", "key">>
AtomHurt    == <<"hp_delta", ":", "-", "1", "5">>
AtomHeal    == <<"hp_delta", ":", "+", "1", "0">>
AtomBadHp   == <<"hp_delta", ":", "abc">>
AtomUnknown == <<"dance", ":", "wildly">>

\* A list of atoms as a JSON value.
Batch(atoms) == JList([i \in 1..Len(atoms) |-> JStr(atoms[i])])

\* The reply {"narration": "You enter.", "state_change": sc}.
Reply(sc) ==
    JObj(<<Pair(S("narration"), JStr(<<"You", " ", "enter.">>)),
           Pair(S("state_change"), sc)>>)

\* The JSON values the backend texts carry.
ReplyValues ==
    { Reply(Batch(<<>>)),
      Reply(Batch(<<AtomMove, AtomAdd>>)),
      Reply(Batch(<<AtomRemove>>)),
      Reply(Batch(<<AtomHurt>>)),
      Reply(Batch(<<AtomHurt, AtomHeal>>)),
      Reply(Batch(<<AtomFlag, AtomHurt>>)),
      Reply(Batch(<<AtomBadHp, AtomUnknown>>)),
      Reply(JNum(5)),
      Reply(JList(<<JStr(AtomFlag), JNum(7)>>)),
      JObj(<<Pair(S("narration"), JStr(<<"Hm.">>))>>),
      JList(<<>>),
      JNum(5) }

\* The prose the backend puts before and after its JSON.
Wrappers == { <<>>, <<Prose, Ws>> }

\* The texts the backend prints: a JSON value inside prose, or prose alone.
Texts ==
    { pre \o Dumps(v) \o post : pre \in Wrappers, post \in Wrappers, v \in ReplyValues }
    \cup { <<>>, <<Prose, Ws, Prose>> }

\* What subprocess.run returns when it returns: the exit status and the
\* captured streams.  A backend that fails prints its error to stderr.
Completed ==
    { [returncode |-> 0, stdout |-> t \o <<Ws>>, stderr |-> <<>>] : t \in Texts }
    \cup { [returncode |-> 1, stdout |-> <<>>, stderr |-> <<Prose, Ws>>] }

\* ------------------------------------------------------- Session Engine

MAX_HISTORY == 6

\* The backend commands one session is followed for.
MaxCmds == 2

VARIABLES
    rulesFile,   \* the content of rules.json
    rules,       \* the rules object of the engine
    heap,        \* the lists and dicts the rules and the state refer to
    state,       \* self.state
    history,     \* self.history
    transcript,  \* the lines of the transcript file
    saveFile,    \* the content of save.json, when it exists
    prompt,      \* the last prompt built
    pc,          \* where the engine is: "Idle", "AwaitingBackend", "Applying",
                 \* "Recording", "Checking", "Terminated"
    cur,         \* the locals of the handle_command in progress
    exit,        \* how the process ended
    end_reason,  \* what check_end_conditions last returned
    count        \* backend commands sent and completed

vars == <<rulesFile, rules, heap, state, history, transcript, saveFile, prompt,
          pc, cur, exit, end_reason, count>>

\* The locals of handle_command before the backend has returned.
NoCur ==
    [cmd |-> <<>>, returncode |-> 0, parsed |-> JNull, narration |-> JNull,
     state_change |-> JNull, todo |-> <<>>]

\* save.json does not exist.
NoSave == [has |-> FALSE, v |-> <<>>, of |-> <<>>]

\* No prompt has been built yet.
NoPrompt == [rules |-> <<>>, state |-> <<>>, history |-> <<>>, player_cmd |-> <<>>]

\* list[-n:]
LastN(l, n) == IF Len(l) <= n THEN l ELSE SubSeq(l, Len(l) - n + 1, Len(l))

\* build_prompt(player_cmd): what the prompt serializes.
build_prompt(player_cmd) ==
    [rules      |-> <<RulesValue(rules, heap)>>,
     state      |-> <<StateValue(state, heap)>>,
     history    |-> LastN(history, MAX_HISTORY),
     player_cmd |-> player_cmd]

\* text.strip() of a backend stream: whitespace at both ends goes.
RECURSIVE StripText(_)
StripText(t) ==
    IF t # <<>> /\ Head(t).k = "ws" THEN StripText(Tail(t))
    ELSE IF t # <<>> /\ t[Len(t)].k = "ws" THEN StripText(SubSeq(t, 1, Len(t) - 1))
    ELSE t

\* call_ollama's return value: proc.stdout.strip() or proc.stderr.strip()
call_ollama(proc) ==
    IF StripText(proc.stdout) # <<>> THEN StripText(proc.stdout) ELSE StripText(proc.stderr)

\* The values `for atom in changes` yields; ok = FALSE when changes is not
\* iterable (TypeError).  A dict yields its keys, a str its characters.
Iterate(changes) ==
    CASE changes.t = "list" -> [ok |-> TRUE, items |-> changes.l]
      [] changes.t = "obj"  ->
            [ok |-> TRUE, items |-> [i \in 1..Len(changes.o) |-> JStr(changes.o[i].key)]]
      [] changes.t = "str"  ->
            [ok |-> TRUE, items |-> [i \in 1..Len(changes.s) |-> JStr(<<changes.s[i]>>)]]
      [] OTHER -> [ok |-> FALSE, items |-> <<>>]

\* main, lines 167-168: the session starts with one of the rules files.
InitWith(files) ==
    /\ rulesFile \in files
    /\ rules = RulesObject(rulesFile)
    /\ heap = Heap(rulesFile.START.inventory.v, <<>>, rulesFile.START.flags.v, <<>>)
    /\ state = InitState(rules)
    /\ history = <<>>
    /\ transcript = <<>>
    /\ saveFile = NoSave
    /\ prompt = NoPrompt
    /\ pc = "Idle"
    /\ cur = NoCur
    /\ exit = "running"
    /\ end_reason = None
    /\ count = [calls |-> 0, done |-> 0, sinceLoad |-> 0,
                base |-> IF rulesFile.START.turns.has THEN rulesFile.START.turns.v ELSE 0]

Init == InitWith(RulesFiles)

\* The process ends: nothing of the session changes any more.
Terminate(how) ==
    /\ pc' = "Terminated"
    /\ exit' = how

\* main, lines 175-177: an empty line is skipped.
EmptyLine(line) ==
    /\ pc = "Idle"
    /\ Strip(line) = <<>>
    /\ UNCHANGED vars

\* handle_command, lines 119-124: help and inventory only print.
HelpOrInventory(line) ==
    /\ pc = "Idle"
    /\ Lower(Strip(line)) \in {<<"h", "e", "l", "p">>,
                               <<"i", "n", "v", "e", "n", "t", "o", "r", "y">>}
    /\ UNCHANGED vars

\* The JSON value of a list of str.
StrList(l) == JList([i \in 1..Len(l) |-> JStr(l[i])])

\* The JSON value of a flags dict.
FlagsJson(d) == JObj([i \in 1..Len(d) |-> Pair(d[i].key, JBool(d[i].val))])

\* The members an optional key contributes to a JSON object.
Member(key, opt, jv) == IF opt.has THEN <<Pair(S(key), jv)>> ELSE <<>>

\* The JSON value json.dump writes for the value sv of self.state.
StateJson(sv) ==
    JObj(Member("location", sv.location, JStr(sv.location.v))
         \o Member("inventory", sv.inventory, StrList(sv.inventory.v))
         \o Member("flags", sv.flags, FlagsJson(sv.flags.v))
         \o Member("hp", sv.hp, JNum(sv.hp.v))
         \o Member("turns", sv.turns, JNum(sv.turns.v)))

\* The state value a decoded JSON object is.
JsonState(jv) ==
    LET has(k) == DictHas(jv.o, S(k))
        at(k)  == DictAt(jv.o, S(k))
    IN  [location  |-> IF has("location") THEN Present(at("location").s) ELSE Absent(<<>>),
         inventory |-> IF has("inventory")
                       THEN Present([i \in 1..Len(at("inventory").l) |-> at("inventory").l[i].s])
                       ELSE Absent(<<>>),
         flags     |-> IF has("flags")
                       THEN Present([i \in 1..Len(at("flags").o) |->
                                Pair(at("flags").o[i].key, at("flags").o[i].val.n = 1)])
                       ELSE Absent(<<>>),
         hp        |-> IF has("hp") THEN Present(at("hp").n) ELSE Absent(0),
         turns     |-> IF has("turns") THEN Present(at("turns").n) ELSE Absent(0)]

RECURSIVE Indented(_)
\* indent=2: json.dump puts whitespace after every opening bracket and comma
\* and before every closing bracket.
Indented(text) ==
    IF text = <<>> THEN <<>>
    ELSE IF Head(text).k \in {"{", "[", ","} THEN <<Head(text), Ws>> \o Indented(Tail(text))
    ELSE IF Head(text).k \in {"}", "]"} THEN <<Ws, Head(text)>> \o Indented(Tail(text))
    ELSE <<Head(text)>> \o Indented(Tail(text))

\* save_json(obj, path): the text written for the state value sv.
save_json(sv) == Indented(Dumps(StateJson(sv)))

\* load_json(path): the state value read from the text.
load_json(text) == JsonState(Loads(text).v)

\* save.json holding text; of is the state value it was written from.
SaveOf(text, sv) == [has |-> TRUE, v |-> text, of |-> <<sv>>]

\* handle_command, lines 125-128: save.
Save(line) ==
    /\ pc = "Idle"
    /\ Lower(Strip(line)) = <<"s", "a", "v", "e">>
    /\ saveFile' = SaveOf(save_json(StateValue(state, heap)), StateValue(state, heap))
    /\ UNCHANGED <<rulesFile, rules, heap, state, history, transcript, prompt,
                   pc, cur, exit, end_reason, count>>

\* A load that keeps the keys of the current state that the save lacks.
LoadedMerge(sv, h) ==
    Mutated([location  |-> IF sv.location.has THEN sv.location ELSE state.location,
             inventory |-> IF sv.inventory.has THEN "S" ELSE state.inventory,
             flags     |-> IF sv.flags.has THEN "S" ELSE state.flags,
             hp        |-> IF sv.hp.has THEN sv.hp ELSE state.hp,
             turns     |-> IF sv.turns.has THEN sv.turns ELSE state.turns],
            [h EXCEPT !.LS = IF sv.inventory.has THEN sv.inventory.v ELSE @,
                      !.DS = IF sv.flags.has THEN sv.flags.v ELSE @])

\* self.state = load_json(SAVE_PATH): a new dict with new lists and dicts.
Loaded(sv, h) ==
    Mutated([location  |-> sv.location,
             inventory |-> IF sv.inventory.has THEN "S" ELSE "none",
             flags     |-> IF sv.flags.has THEN "S" ELSE "none",
             hp        |-> sv.hp,
             turns     |-> sv.turns],
            [h EXCEPT !.LS = sv.inventory.v, !.DS = sv.flags.v])

\* handle_command, lines 129-135: load.
Load(line) ==
    /\ pc = "Idle"
    /\ Lower(Strip(line)) = <<"l", "o", "a", "d">>
    /\ IF saveFile.has
       THEN /\ state' = Loaded(load_json(saveFile.v), heap).state
            /\ heap' = Loaded(load_json(saveFile.v), heap).heap
            /\ count' = [count EXCEPT !.sinceLoad = 0,
                            !.base = IF load_json(saveFile.v).turns.has
                                     THEN load_json(saveFile.v).turns.v ELSE 0]
       ELSE UNCHANGED <<state, heap, count>>
    /\ UNCHANGED <<rulesFile, rules, history, transcript, saveFile, prompt,
                   pc, cur, exit, end_reason>>

\* handle_command, lines 136-138: quit.
Quit(line) ==
    /\ pc = "Idle"
    /\ Lower(Strip(line)) = <<"q", "u", "i", "t">>
    /\ Terminate("quit")
    /\ UNCHANGED <<rulesFile, rules, heap, state, history, transcript, saveFile,
                   prompt, cur, end_reason, count>>

\* An inventory branch that does not return.
BuiltInsInventoryFallsThrough ==
    { <<"h", "e", "l", "p">>, <<"s", "a", "v", "e">>, <<"l", "o", "a", "d">>,
      <<"q", "u", "i", "t">> }

\* The built-in commands.
BuiltIns ==
    { <<"h", "e", "l", "p">>, <<"i", "n", "v", "e", "n", "t", "o", "r", "y">>,
      <<"s", "a", "v", "e">>, <<"l", "o", "a", "d">>, <<"q", "u", "i", "t">> }

\* handle_command, lines 140-142: any other command goes to the backend.  The
\* session is followed for max backend commands.
ForwardWithin(line, max) ==
    /\ pc = "Idle"
    /\ Strip(line) # <<>>
    /\ Lower(Strip(line)) \notin BuiltIns
    /\ count.calls < max
    /\ cur' = [NoCur EXCEPT !.cmd = Lower(Strip(line))]
    /\ prompt' = build_prompt(Lower(Strip(line)))
    /\ pc' = "AwaitingBackend"
    /\ count' = [count EXCEPT !.calls = @ + 1]
    /\ UNCHANGED <<rulesFile, rules, heap, state, history, transcript, saveFile,
                   exit, end_reason>>

Forward(line) == ForwardWithin(line, MaxCmds)

\* call_ollama, lines 58-59: subprocess.run raised (the backend cannot be
\* started, or the 120 s wait timed out), and the process exits with a message.
BackendRaises ==
    /\ pc = "AwaitingBackend"
    /\ Terminate("backend_error")
    /\ UNCHANGED <<rulesFile, rules, heap, state, history, transcript, saveFile,
                   prompt, cur, end_reason, count>>

\* handle_command, lines 142-147 up to the loop of apply_state_changes: the
\* backend returned, its text is parsed and the two keys are read.  A parsed
\* value without .get (AttributeError) or a state_change that cannot be
\* iterated (TypeError) ends the process with a traceback.
BackendReturns(proc) ==
    /\ pc = "AwaitingBackend"
    /\ LET parsed == safe_json_extract(call_ollama(proc))
           narration == DictGet(parsed.o, S("narration"), JStr(<<>>))
           state_change == DictGet(parsed.o, S("state_change"), JList(<<>>))
       IN  IF parsed.t # "obj"
           THEN /\ cur' = [cur EXCEPT !.returncode = proc.returncode, !.parsed = parsed]
                /\ Terminate("exception")
           ELSE /\ cur' = [cur EXCEPT !.returncode = proc.returncode,
                                      !.parsed = parsed,
                                      !.narration = narration,
                                      !.state_change = state_change,
                                      !.todo = Iterate(state_change).items]
                /\ IF Iterate(state_change).ok
                   THEN pc' = "Applying" /\ exit' = exit
                   ELSE Terminate("exception")
    /\ UNCHANGED <<rulesFile, rules, heap, state, history, transcript, saveFile,
                   prompt, end_reason, count>>

\* apply_state_changes, lines 80-102: one turn of the loop.  An atom that is
\* no str has no startswith (AttributeError).
ApplyAtom ==
    /\ pc = "Applying"
    /\ cur.todo # <<>>
    /\ IF Head(cur.todo).t # "str"
       THEN /\ Terminate("exception")
            /\ UNCHANGED <<state, heap, cur>>
       ELSE /\ state' = ApplyOne(state, heap, Head(cur.todo).s).state
            /\ heap' = ApplyOne(state, heap, Head(cur.todo).s).heap
            /\ cur' = [cur EXCEPT !.todo = Tail(@)]
            /\ UNCHANGED <<pc, exit>>
    /\ UNCHANGED <<rulesFile, rules, history, transcript, saveFile, prompt,
                   end_reason, count>>

\* apply_state_changes, line 103: the loop is over, the turn is counted.
CountTurn ==
    /\ pc = "Applying"
    /\ cur.todo = <<>>
    /\ state' = [state EXCEPT !.turns = TurnsAfter(state, Len(Iterate(cur.state_change).items))]
    /\ pc' = "Recording"
    /\ UNCHANGED <<rulesFile, rules, heap, history, transcript, saveFile, prompt,
                   cur, exit, end_reason, count>>

\* The entry of the turn in self.history.
HistoryEntry(c) ==
    [player |-> c.cmd, gm |-> [narration |-> c.narration, state_change |-> c.state_change]]

\* The entry of the turn in the transcript.
TranscriptEntry(c, sv) ==
    [player |-> c.cmd, gm |-> [narration |-> c.narration, state_change |-> c.state_change],
     state |-> sv]

\* A transcript opened for writing instead of appending.
append_transcript_truncating(file, entry) == <<entry>>

\* append_transcript(entry): one more line at the end of the file.
append_transcript(file, entry) == Append(file, entry)

\* handle_command, lines 149-158: the narration is shown, the turn is recorded.
Record ==
    /\ pc = "Recording"
    /\ history' = Append(history, HistoryEntry(cur))
    /\ transcript' = append_transcript(transcript, TranscriptEntry(cur, StateValue(state, heap)))
    /\ pc' = "Checking"
    /\ UNCHANGED <<rulesFile, rules, heap, state, saveFile, prompt, cur, exit,
                   end_reason, count>>

\* A test of the end reason that ends the session on a win only.
SessionEndsOnWinOnly(reason) == reason = Win

\* if end_reason: any result but None ends the session.
SessionEnds(reason) == reason # None

\* handle_command, lines 160-164: the end conditions are evaluated.
CheckEnd ==
    /\ pc = "Checking"
    /\ end_reason' = check_end_conditions(rules, StateValue(state, heap))
    /\ count' = [count EXCEPT !.done = @ + 1, !.sinceLoad = @ + 1]
    /\ IF SessionEnds(end_reason')
       THEN Terminate("game_over") /\ UNCHANGED cur
       ELSE pc' = "Idle" /\ cur' = NoCur /\ UNCHANGED exit
    /\ UNCHANGED <<rulesFile, rules, heap, state, history, transcript, saveFile, prompt>>

\* main, lines 180-182: KeyboardInterrupt, wherever the engine is.
Interrupt ==
    /\ pc # "Terminated"
    /\ Terminate("interrupt")
    /\ UNCHANGED <<rulesFile, rules, heap, state, history, transcript, saveFile,
                   prompt, cur, end_reason, count>>

Next ==
    \/ \E line \in Lines : EmptyLine(line)
    \/ \E line \in Lines : HelpOrInventory(line)
    \/ \E line \in Lines : Save(line)
    \/ \E line \in Lines : Load(line)
    \/ \E line \in Lines : Quit(line)
    \/ \E line \in Lines : Forward(line)
    \/ BackendRaises
    \/ \E proc \in Completed : BackendReturns(proc)
    \/ ApplyAtom
    \/ CountTurn
    \/ Record
    \/ CheckEnd
    \/ Interrupt

Spec == Init /\ [][Next]_vars

\* ---------------------------------------------------------------- claims

\* The value of self.state.
Now == StateValue(state, heap)

\* self.state.get("turns", 0)
TurnsNow == IF Now.turns.has THEN Now.turns.v ELSE 0

\* self.state.get("hp", 0)
HpNow == IF Now.hp.has THEN Now.hp.v ELSE 0

\* The flag named f is true in self.state.
FlagNow(f) == Now.flags.has /\ FlagTrue(Now.flags.v, f)

\* The session stands between two commands, or a terminal condition ended it.
AtRest == pc = "Idle" \/ exit = "game_over"

\* The atoms of the batch of history entry i.
BatchLen(i) == Len(Iterate(history[i].gm.state_change).items)

\* C1: whatever text the backend replies, the process never ends with an
\* uncaught exception: a session ends by quit, by a terminal game condition,
\* by a user interrupt or by a backend-invocation error.
C1_NoAbnormalTermination == exit # "exception"

\* A JSON value that is a str, or a list of str.
StrOrStrList(v) ==
    \/ v.t = "str"
    \/ v.t = "list" /\ \A i \in 1..Len(v.l) : v.l[i].t = "str"

\* A reply of the expected shape: an object with narration and state_change.
WellShaped(v) ==
    /\ v.t = "obj"
    /\ DictHas(v.o, S("narration")) /\ StrOrStrList(DictAt(v.o, S("narration")))
    /\ DictHas(v.o, S("state_change"))
    /\ DictAt(v.o, S("state_change")).t = "list"
    /\ \A i \in 1..Len(DictAt(v.o, S("state_change")).l) :
          DictAt(v.o, S("state_change")).l[i].t = "str"

\* The parser has returned for the command in progress.
ParserReturned == pc \in {"Applying", "Recording", "Checking"} \/ exit = "exception"

\* C2: the result of safe_json_extract is a parsed object with both keys,
\* narration (a string or list of strings) and state_change (a list of
\* strings), or else exactly the fallback.
C2_ParserShape == ParserReturned => WellShaped(cur.parsed) \/ cur.parsed = Fallback

\* C3: every processed backend command increases turns by exactly 1, whatever
\* its batch: after k processed commands since the start or the last load,
\* turns is its value then plus k.
C3_TurnsCount == AtRest => TurnsNow = count.base + count.sinceLoad

\* Two commands were processed, one with an empty batch and one with a batch
\* of several atoms.
C3_Witness ==
    /\ pc = "Idle" /\ count.sinceLoad = 2 /\ Len(history) = 2
    /\ \E i \in 1..2 : BatchLen(i) = 0
    /\ \E i \in 1..2 : BatchLen(i) >= 2

\* The rules of the end-to-end scenario: START = {hp: 10, flags: {}, turns: 0}
\* and END_CONDITIONS with LOSE_ANY_FLAGS = ["hp_zero"] alone.
ScenarioRules ==
    [START |-> StartBare,
     END_CONDITIONS |-> EndValue(Absent(<<>>), Present(<<HpZero>>), Absent(0))]

\* The same rules with WIN_ALL_FLAGS = ["key"] too.
ScenarioRulesWithWin ==
    [START |-> StartBare,
     END_CONDITIONS |-> EndValue(Present(<<S("key")>>), Present(<<HpZero>>), Absent(0))]

\* The first command of the session was processed, and the reply's
\* state_change was ["hp_delta:-15"].
ScenarioRun ==
    /\ count.done = 1 /\ Len(transcript) = 1
    /\ transcript[1].gm.state_change = Batch(<<AtomHurt>>)

\* C4 as stated: in the scenario with LOSE_ANY_FLAGS alone, hp = -5, hp_zero
\* is true, the Evaluator returns Lose and the session terminates.
C4_ScenarioLose ==
    rulesFile = ScenarioRules /\ ScenarioRun =>
        /\ HpNow = -5 /\ FlagNow(HpZero)
        /\ end_reason = Lose
        /\ pc = "Terminated" /\ exit = "game_over"

\* C4 as amended: in the scenario hp = -5, hp_zero is true and the session
\* terminates; with LOSE_ANY_FLAGS alone the Evaluator returns Win (an absent
\* WIN_ALL_FLAGS is satisfied vacuously and is looked at first), and it returns
\* Lose when the rules also name a win flag that is not set.
C4_ScenarioEnds ==
    rulesFile \in {ScenarioRules, ScenarioRulesWithWin} /\ ScenarioRun =>
        /\ HpNow = -5 /\ FlagNow(HpZero)
        /\ end_reason = (IF rulesFile = ScenarioRules THEN Win ELSE Lose)
        /\ pc = "Terminated" /\ exit = "game_over"

\* The scenario has run with LOSE_ANY_FLAGS alone.
C4_Witness == rulesFile = ScenarioRules /\ ScenarioRun /\ exit = "game_over"

\* Every name of WIN_ALL_FLAGS is true in the flags of sv.
WinHolds(end, sv) ==
    \A i \in 1..Len(end.WIN_ALL_FLAGS.v) :
        sv.flags.has /\ FlagTrue(sv.flags.v, end.WIN_ALL_FLAGS.v[i])

\* Some name of LOSE_ANY_FLAGS is true in the flags of sv.
LoseHolds(end, sv) ==
    \E i \in 1..Len(end.LOSE_ANY_FLAGS.v) :
        sv.flags.has /\ FlagTrue(sv.flags.v, end.LOSE_ANY_FLAGS.v[i])

\* turns >= MAX_TURNS, never when MAX_TURNS is absent.
TurnsHolds(end, sv) ==
    end.MAX_TURNS.has /\ (IF sv.turns.has THEN sv.turns.v ELSE 0) >= end.MAX_TURNS.v

\* The one signal the claim has the Evaluator return.
Signal(end, sv) ==
    CASE WinHolds(end, sv) -> Win
      [] ~WinHolds(end, sv) /\ LoseHolds(end, sv) -> Lose
      [] ~WinHolds(end, sv) /\ ~LoseHolds(end, sv) /\ TurnsHolds(end, sv) -> TurnLimit
      [] OTHER -> None

\* The step in which handle_command evaluates the end conditions.
Evaluates == pc = "Checking" /\ count'.done = count.done + 1

\* C5: the Evaluator returns the first match of Win (every win flag true),
\* Lose (some lose flag true), TurnLimit (turns >= MAX_TURNS, when present),
\* else None, and does not modify GameState.
C5_EvaluationOrder ==
    [][Evaluates =>
          /\ end_reason' = Signal(rulesFile.END_CONDITIONS, Now)
          /\ state' = state /\ heap' = heap]_vars

\* The Evaluator was given a state in which a win and a lose condition both
\* hold, with a win list that is not empty.
C5_Witness ==
    /\ count.done >= 1 /\ exit = "game_over"
    /\ rulesFile.END_CONDITIONS.WIN_ALL_FLAGS.v # <<>>
    /\ WinHolds(rulesFile.END_CONDITIONS, Now)
    /\ LoseHolds(rulesFile.END_CONDITIONS, Now)

\* WIN_ALL_FLAGS is empty or absent.
WinEmpty == rulesFile.END_CONDITIONS.WIN_ALL_FLAGS.v = <<>>

\* C6: with an empty WIN_ALL_FLAGS the Evaluator reports Win for every
\* GameState, so the first processed backend command ends the session with Win.
C6_WinVacuity ==
    WinEmpty =>
        /\ check_end_conditions(rules, Now) = Win
        /\ count.done <= 1
        /\ count.done = 1 => pc = "Terminated" /\ exit = "game_over" /\ end_reason = Win

\* The first command ended a session with Win although a lose flag was true.
C6_Witness ==
    /\ WinEmpty /\ count.done = 1 /\ exit = "game_over"
    /\ LoseHolds(rulesFile.END_CONDITIONS, Now)

\* C7: when the Evaluator returns a result other than None the session is
\* Terminated within that command, and a Terminated session changes
\* GameState, history and transcript no more.
C7_TerminalIsFinal ==
    [][/\ pc = "Checking" /\ check_end_conditions(rules, Now) # None
            => pc' = "Terminated"
       /\ pc = "Terminated"
            => pc' = "Terminated" /\ UNCHANGED <<state, heap, history, transcript>>]_vars

\* A session ended by the turn limit, and one that went on after a command.
C7_Witness == exit = "game_over" /\ end_reason = TurnLimit /\ count.done = 2

\* C8: a backend that fails, also by exiting with an error status, ends the
\* session with an error at once: no turn is made of it.
C8_BackendFailureFatal ==
    cur.returncode # 0 =>
        /\ pc = "Terminated" /\ exit = "backend_error"
        /\ Len(transcript) = count.done

\* The step applies the atom at the head of the batch.
AppliesAtom == pc = "Applying" /\ cur.todo # <<>> /\ pc' = "Applying"

\* C9: an hp_delta atom that leaves hp <= 0 leaves hp_zero true, and no later
\* atom or batch makes it false again.
C9_HpZeroSticky ==
    [][/\ AppliesAtom /\ StartsWith(Head(cur.todo).s, "hp_delta") /\ HpNow' <= 0
            => FlagNow(HpZero)'
       /\ pc # "Idle" /\ FlagNow(HpZero) => FlagNow(HpZero)']_vars

\* hp is above 0 again in a later batch, and hp_zero is still true.
C9_Witness == pc = "Idle" /\ count.done = 2 /\ HpNow > 0 /\ FlagNow(HpZero)

\* C10: the rules object is equal to the rules loaded at startup, and so are
\* the rules serialized in the prompt.
C10_RulesUnmodified ==
    /\ RulesValue(rules, heap) = rulesFile
    /\ prompt # NoPrompt => prompt.rules = <<rulesFile>>

\* ------------------------------------------- sessions of item batches

\* The item sessions are followed for this many backend commands.
MaxItemCmds == 3

\* START = {location: "gate", inventory: ["lamp"], flags: {}, hp: 10, turns: 0}
StartItems ==
    StartValue(Present(S("gate")), Present(<<S("lamp")>>), Present(<<>>), Present(10), Present(0))

\* A rules file whose session no item batch ends.
ItemRules ==
    { [START |-> StartItems,
       END_CONDITIONS |-> EndValue(Present(<<S("key")>>), Present(<<S("dead")>>), Absent(0))] }

AtomShield == <<"add_item", ":", "shield">>

\* The replies of the item sessions.
ItemReplies ==
    { Reply(Batch(<<AtomAdd, AtomAdd>>)),
      Reply(Batch(<<AtomShield>>)),
      Reply(Batch(<<AtomRemove, AtomAdd>>)) }

\* The backend prints the reply and exits with 0.
Replied(v) == [returncode |-> 0, stdout |-> Dumps(v) \o <<Ws>>, stderr |-> <<>>]

\* The command the player types in the sessions of forwarded commands.
PlainLines == { <<"l", "o", "o", "k">> }

InitItems == InitWith(ItemRules)

NextItems ==
    \/ \E line \in PlainLines : ForwardWithin(line, MaxItemCmds)
    \/ \E v \in ItemReplies : BackendReturns(Replied(v))
    \/ ApplyAtom
    \/ CountTurn
    \/ Record
    \/ CheckEnd

SpecItems == InitItems /\ [][NextItems]_vars

\* self.state.get("inventory", [])
InventoryNow == IF Now.inventory.has THEN Now.inventory.v ELSE <<>>

\* No element of the list l occurs in it twice.
NoDuplicates(l) == \A i, j \in 1..Len(l) : l[i] = l[j] => i = j

\* The item the atom being applied names.
ItemOfAtom == Strip(AfterColon(Head(cur.todo).s))

\* C11: from an inventory without duplicates no list of batches makes one
\* with duplicates; an add_item atom leaves every item that is in the
\* inventory at its position, and leaves the item it names in it exactly once.
C11_AddItemIdempotent ==
    /\ [](NoDuplicates(InventoryNow))
    /\ [][AppliesAtom /\ StartsWith(Head(cur.todo).s, "add_item")
            => /\ \A i \in 1..Len(InventoryNow) : InventoryNow'[i] = InventoryNow[i]
               /\ Cardinality({i \in 1..Len(InventoryNow') : InventoryNow'[i] = ItemOfAtom}) = 1
               /\ Len(InventoryNow') <= Len(InventoryNow) + 1]_vars

\* sword was added twice, shield once, then sword twice more: sword is still
\* in front of shield.
C11_Witness ==
    /\ pc = "Idle"
    /\ Len(history) = 3
    /\ history[1].gm.state_change = Batch(<<AtomAdd, AtomAdd>>)
    /\ history[2].gm.state_change = Batch(<<AtomShield>>)
    /\ history[3].gm.state_change = Batch(<<AtomAdd, AtomAdd>>)
    /\ InventoryNow = <<S("lamp"), S("sword"), S("shield")>>

\* ------------------------------------------ sessions with saves and loads

\* The sessions with saves and loads are followed for this many backend
\* commands.
MaxSaveCmds == 2

\* A rules file with START = {} and one with every key and MAX_TURNS = 2.
SaveRules ==
    { [START |-> StartEmpty,
       END_CONDITIONS |-> EndValue(Present(<<S("key")>>), Present(<<HpZero>>), Absent(0))],
      [START |-> StartFull,
       END_CONDITIONS |-> EndValue(Present(<<S("key")>>), Present(<<S("dead")>>), Present(2))] }

\* The replies of these sessions.
SaveReplies ==
    { Reply(Batch(<<AtomMove, AtomAdd>>)),
      Reply(Batch(<<AtomBadHp, AtomUnknown, AtomFlag>>)),
      Reply(Batch(<<AtomHurt>>)) }

InitSaves == InitWith(SaveRules)

NextSaves ==
    \/ \E line \in Lines : EmptyLine(line)
    \/ \E line \in Lines : HelpOrInventory(line)
    \/ \E line \in Lines : Save(line)
    \/ \E line \in Lines : Load(line)
    \/ \E line \in Lines : Quit(line)
    \/ \E line \in Lines : ForwardWithin(line, MaxSaveCmds)
    \/ \E v \in SaveReplies : BackendReturns(Replied(v))
    \/ ApplyAtom
    \/ CountTurn
    \/ Record
    \/ CheckEnd
    \/ Interrupt

SpecSaves == InitSaves /\ [][NextSaves]_vars

\* C12: a load puts back the state that was saved: after save, any commands
\* other than save, and load, the state is the state at the time of the save,
\* with every key, every value and the order of the inventory (a replacement,
\* not a merge).
C12_SaveLoadRoundTrip ==
    [][/\ \A line \in Lines : Save(line) => saveFile'.of = <<Now>>
       /\ (\A line \in Lines : ~Save(line)) => saveFile' = saveFile
       /\ \A line \in Lines : Load(line) /\ saveFile.has => Now' = saveFile.of[1]]_vars

\* A load after a command that had changed the state since the save.
C12_Witness ==
    /\ pc = "Idle"
    /\ saveFile.has
    /\ count.done >= 1
    /\ count.sinceLoad = 0
    /\ transcript[Len(transcript)].state # Now
    /\ Now = saveFile.of[1]

\* ------------------------------------------------------ long sessions

\* The long sessions are followed for this many backend commands.
MaxLongCmds == 7

\* The replies of the long sessions.
LongReplies == { Reply(Batch(<<>>)), Reply(Batch(<<AtomMove>>)) }

InitLong == InitWith(ItemRules)

NextLong ==
    \/ \E line \in PlainLines : ForwardWithin(line, MaxLongCmds)
    \/ \E v \in LongReplies : BackendReturns(Replied(v))
    \/ ApplyAtom
    \/ CountTurn
    \/ Record
    \/ CheckEnd

SpecLong == InitLong /\ [][NextLong]_vars

\* The smaller of two numbers.
Min(a, b) == IF a <= b THEN a ELSE b

\* C13: self.history never holds more than MAX_HISTORY entries: after n
\* backend commands it holds the last min(MAX_HISTORY, n) turns.
C13_HistoryWindow ==
    /\ Len(history) <= MAX_HISTORY
    /\ pc = "Idle" => Len(history) = Min(MAX_HISTORY, count.done)

\* help, inventory, save and load as the player may type them.
BypassLines ==
    { line \in Lines : Lower(Strip(line)) \in { <<"h", "e", "l", "p">>,
                                                <<"i", "n", "v", "e", "n", "t", "o", "r", "y">>,
                                                <<"s", "a", "v", "e">>,
                                                <<"l", "o", "a", "d">> } }

\* C14: help, inventory, save, and load when there is no save, never go to
\* the backend, never evaluate the end conditions, and leave the state (turns
\* included), the history and the transcript as they are; the session stays
\* in Idle.
C14_BuiltInsBypass ==
    [][/\ pc = "Idle" /\ pc' = "AwaitingBackend"
            => \A line \in BypassLines : cur'.cmd # Lower(Strip(line))
       /\ \A line \in BypassLines :
            /\ HelpOrInventory(line) \/ Save(line) \/ (Load(line) /\ ~saveFile.has)
            => /\ pc' = "Idle"
               /\ UNCHANGED <<state, heap, history, transcript, prompt, cur,
                              exit, end_reason, count>>]_vars

\* A save before any backend command: the file is written, nothing else moved.
C14_Witness ==
    /\ pc = "Idle"
    /\ saveFile.has
    /\ saveFile.of = <<Now>>
    /\ count.calls = 0
    /\ history = <<>>
    /\ transcript = <<>>
    /\ exit = "running"

\* C15: a command that is not a built-in reaches the backend as the player
\* typed it, trimmed of whitespace and not otherwise changed: PLAYER_COMMAND in
\* the prompt and the player field of the history and transcript entries are
\* that string.
C15_ForwardedVerbatim ==
    [][/\ \A line \in Lines :
            Forward(line) => prompt'.player_cmd = Strip(line) /\ cur'.cmd = Strip(line)
       /\ pc = "Recording" /\ pc' # "Terminated"
            => /\ history'[Len(history')].player = cur.cmd
               /\ transcript'[Len(transcript')].player = cur.cmd]_vars

\* The atom being applied is a str of none of the five kinds.
UnknownAtom ==
    /\ Head(cur.todo).t = "str"
    /\ \A kind \in {"move_to", "add_item", "remove_item", "set_flag", "hp_delta"} :
            ~StartsWith(Head(cur.todo).s, kind)

\* The atom being applied is an hp_delta whose payload int() rejects.
BadHpAtom ==
    /\ Head(cur.todo).t = "str"
    /\ StartsWith(Head(cur.todo).s, "hp_delta")
    /\ ~PyInt(AfterColon(Head(cur.todo).s)).ok

\* The loop of apply_state_changes is at an atom.
AtAtom == pc = "Applying" /\ cur.todo # <<>> /\ exit' # "interrupt"

\* self.state.get("flags", {})
FlagsNow == IF Now.flags.has THEN Now.flags.v ELSE <<>>

\* C16 as stated: an atom of unknown kind, or an hp_delta atom whose payload
\* is not an integer, changes no field of the state, whatever the state is;
\* the rest of the batch is still applied and turns still goes up by 1.
C16_MalformedAtomNoOp ==
    [][/\ AtAtom /\ (UnknownAtom \/ BadHpAtom)
            => Now' = Now /\ pc' = "Applying" /\ cur'.todo = Tail(cur.todo)
       /\ pc = "Applying" /\ pc' = "Recording" => TurnsNow' = TurnsNow + 1]_vars

\* C16, amended: an atom of unknown kind changes no field of the state; an
\* hp_delta atom whose payload is not an integer is applied with delta 0, so
\* location, inventory and turns stay, hp keeps its value (as 0 when it was
\* absent) and hp_zero is set when that hp is <= 0; in both cases the rest of
\* the batch is still applied and turns still goes up by 1.
C16_MalformedAtomSkipped ==
    [][/\ AtAtom /\ UnknownAtom => Now' = Now
       /\ AtAtom /\ BadHpAtom
            => /\ Now'.location = Now.location
               /\ Now'.inventory = Now.inventory
               /\ Now'.turns = Now.turns
               /\ Now'.hp = Present(HpNow)
               /\ Now'.flags = IF HpNow <= 0 THEN Present(DictSet(FlagsNow, HpZero, TRUE))
                               ELSE Now.flags
       /\ AtAtom /\ (UnknownAtom \/ BadHpAtom)
            => pc' = "Applying" /\ cur'.todo = Tail(cur.todo)
       /\ pc = "Applying" /\ pc' = "Recording" => TurnsNow' = TurnsNow + 1]_vars

\* hp_delta:abc, an unknown atom and set_flag:key were applied to a state
\* without hp: the batch went through, hp is 0, hp_zero and key are set and
\* turns is 1.
C16_Witness ==
    /\ AtRest
    /\ rulesFile.START = StartEmpty
    /\ Len(history) = 1
    /\ history[1].gm.state_change = Batch(<<AtomBadHp, AtomUnknown, AtomFlag>>)
    /\ Now.hp = Present(0)
    /\ FlagNow(HpZero)
    /\ FlagNow(S("key"))
    /\ Now.location = Absent(<<>>)
    /\ TurnsNow = 1

\* ---------------------------------------- sessions of replies with prose

\* The prose sessions are followed for this many backend commands.
MaxProseCmds == 2

\* The objects the prose is wrapped around.
ProseObjects ==
    { Reply(Batch(<<AtomMove>>)), Reply(Batch(<<AtomFlag>>)),
      Reply(Batch(<<AtomAdd, AtomHurt>>)), Reply(Batch(<<>>)) }

\* What the backend writes in front of the object: words, words with a pair of
\* braces among them, words with a closing brace.
ProseBefore ==
    { <<Prose, Ws>>,
      <<Prose, Ws, Tok("{"), Prose, Tok("}"), Ws>>,
      <<Prose, Tok("}"), Ws>> }

\* What the backend writes after the object.
ProseAfter ==
    { <<>>,
      <<Ws, Prose>>,
      <<Ws, Tok("{"), Prose>>,
      <<Ws, Prose, Tok("}")>> }

\* Texts without one of the two braces, none of them JSON.
Braceless ==
    { <<>>, <<Prose, Ws, Prose>>, <<Prose, Tok("{"), Prose>>, <<Tok("}"), Prose>>,
      <<Tok("["), Prose>> }

\* The backend prints text and exits with 0.
Printed(text) == [returncode |-> 0, stdout |-> text \o <<Ws>>, stderr |-> <<>>]

\* The texts of the prose sessions.
ProseTexts ==
    { pre \o Dumps(v) \o post : pre \in ProseBefore, post \in ProseAfter, v \in ProseObjects }
    \cup Braceless

InitProse == InitWith(ItemRules)

NextProse ==
    \/ \E line \in PlainLines : ForwardWithin(line, MaxProseCmds)
    \/ \E text \in ProseTexts : BackendReturns(Printed(text))
    \/ ApplyAtom
    \/ CountTurn
    \/ Record
    \/ CheckEnd

SpecProse == InitProse /\ [][NextProse]_vars

\* The text has a token c.
HasTok(text, c) == \E i \in 1..Len(text) : text[i].k = c

\* Once the batch of a reply that says move_to:cave is applied, the player is
\* in the cave.
MoveApplied ==
    pc = "Recording" /\ cur.state_change = Batch(<<AtomMove>>)
        => Now.location = Present(S("cave"))

\* C17 as stated: from a text that is not JSON and is any prose, one JSON
\* object with narration and state_change, and any prose, the parser returns
\* the object, and the atoms of the object are applied; from a text that is not
\* JSON and lacks { or } the parser returns the fallback.
C17_SubstringRecovery ==
    [][/\ \A pre \in ProseBefore, post \in ProseAfter, v \in ProseObjects :
            BackendReturns(Printed(pre \o Dumps(v) \o post))
                /\ ~Loads(pre \o Dumps(v) \o post).ok
            => cur'.parsed = v
       /\ \A text \in Braceless :
            BackendReturns(Printed(text)) /\ ~Loads(text).ok => cur'.parsed = Fallback
       /\ MoveApplied]_vars

\* C17, amended: the same for prose that has no { before the object and no }
\* after it.
C17_SubstringRecoveryOfBracelessProse ==
    [][/\ \A pre \in ProseBefore, post \in ProseAfter, v \in ProseObjects :
            BackendReturns(Printed(pre \o Dumps(v) \o post))
                /\ ~Loads(pre \o Dumps(v) \o post).ok
                /\ ~HasTok(pre, "{") /\ ~HasTok(post, "}")
            => cur'.parsed = v
       /\ \A text \in Braceless :
            BackendReturns(Printed(text)) /\ ~Loads(text).ok => cur'.parsed = Fallback
       /\ MoveApplied]_vars

\* No text of these sessions is JSON: the move of the first command came out
\* of the prose around it.
C17_Witness ==
    /\ pc = "Idle"
    /\ count.done = 1
    /\ history[1].gm.state_change = Batch(<<AtomMove>>)
    /\ Now.location = Present(S("cave"))
    /\ \A text \in ProseTexts : ~Loads(text).ok

\* The last entry of the transcript.
LastEntry == transcript[Len(transcript)]

\* C18: the transcript only grows, by one entry per backend command that is
\* processed, the command that ends the game included; the entry holds the
\* command, the reply and the state after the batch, turns incremented;
\* built-in commands add no entry and no entry is changed or removed.
C18_TranscriptAppendOnly ==
    [][/\ Len(transcript') \in {Len(transcript), Len(transcript) + 1}
       /\ SubSeq(transcript', 1, Len(transcript)) = transcript
       /\ pc = "Idle" => transcript' = transcript
       /\ Evaluates
            => /\ Len(transcript) = count.done + 1
               /\ LastEntry = [player |-> cur.cmd,
                               gm |-> [narration |-> cur.narration,
                                       state_change |-> cur.state_change],
                               state |-> Now]
               /\ LastEntry.state.turns = Present(count.base + count.sinceLoad + 1)]_vars

\* A game that ended at its second command, after a save: the transcript has
\* the entries of both commands, the last with the final state.
C18_Witness ==
    /\ exit = "game_over"
    /\ saveFile.has
    /\ count.done = 2
    /\ Len(transcript) = 2
    /\ transcript[1].state # transcript[2].state
    /\ LastEntry.state = Now

\* C19: a user interrupt ends the session only while the engine is Idle: no
\* command is abandoned part-way, and the state is never left mutated with
\* the history and transcript entry of the turn missing.
C19_InterruptOnlyWhenIdle ==
    exit = "interrupt"
        => /\ cur = NoCur
           /\ Len(history) = count.calls
           /\ Len(transcript) = count.calls

\* ------------------------------------- sessions under a limit of turns

\* The sessions under a limit of turns are followed for this many backend
\* commands.
MaxLimitCmds == 4

\* Rules files with START turns = 0 and MAX_TURNS = 0, 1, 2.
LimitRules ==
    { [START |-> StartFull,
       END_CONDITIONS |-> EndValue(Present(<<S("key")>>), Present(<<S("dead")>>), Present(m))]
      : m \in {0, 1, 2} }

\* The replies of these sessions: batches that end the game or not, and a text
\* that is not JSON.
LimitTexts ==
    { Dumps(Reply(Batch(<<>>))), Dumps(Reply(Batch(<<AtomMove>>))),
      Dumps(Reply(Batch(<<AtomFlag>>))), <<Prose, Ws, Prose>> }

InitLimit == InitWith(LimitRules)

\* The sessions in which load is never used.
NextLimit ==
    \/ \E line \in Lines : HelpOrInventory(line)
    \/ \E line \in Lines : Save(line)
    \/ \E line \in PlainLines : ForwardWithin(line, MaxLimitCmds)
    \/ \E text \in LimitTexts : BackendReturns(Printed(text))
    \/ ApplyAtom
    \/ CountTurn
    \/ Record
    \/ CheckEnd

SpecLimit == InitLimit /\ [][NextLimit]_vars

\* MAX_TURNS of the rules file.
MaxTurns == rulesFile.END_CONDITIONS.MAX_TURNS

\* max(M, 1) for MAX_TURNS = M.
MostCommands == IF MaxTurns.v >= 1 THEN MaxTurns.v ELSE 1

\* C20: with MAX_TURNS = M, START turns = 0 and no load, no more than
\* max(M, 1) commands go to the backend: the session is over when the
\* max(M, 1)-th of them has been processed.
C20_BoundedSession ==
    MaxTurns.has /\ rulesFile.START.turns = Present(0)
        => /\ count.calls <= MostCommands
           /\ count.done = MostCommands => pc = "Terminated"

\* With MAX_TURNS = 2 the second command ended the session on the limit.
C20_Witness ==
    /\ MaxTurns = Present(2)
    /\ count.done = 2
    /\ exit = "game_over"
    /\ end_reason = TurnLimit
    /\ count.calls < MaxLimitCmds

====
